---- MODULE Spec2Model ----
(***************************************************************************)
(* Model of src/currency_bot.py: a Telegram bot with three command         *)
(* handlers (/start, /help, /rates), one outbound HTTP GET                  *)
(* (get_exchange_rates) and a bootstrap (main).                             *)
(*                                                                         *)
(* Environment assumptions (the bot framework and the HTTP library are not *)
(* part of the repository):                                                *)
(*  - an update handed to a handler carries a message and a user, and a    *)
(*    reply_text / reply_html call delivers its message;                   *)
(*  - the handlers are coroutines on the single event loop started by      *)
(*    asyncio.run (line 125): a coroutine runs without interruption from   *)
(*    one await to the next, and the host runtime may interleave several   *)
(*    handler invocations at their awaits;                                 *)
(*  - requests.get (line 39) is an ordinary synchronous call: the event    *)
(*    loop's thread is inside it until it returns.                         *)
(* Rates are fixed-point numbers in units of 10^-5.                        *)
(***************************************************************************)
EXTENDS Integers, Sequences, FiniteSets, TLC

VARIABLES
    token,      \* value of os.getenv("TELEGRAM_BOT_TOKEN")
    mainPc,     \* position of main()
    built,      \* Application.builder().token(token).build() has run
    handlers,   \* commands registered with application.add_handler
    cmd,        \* cmd[i]: command of handler invocation i ("none" if unused)
    pc,         \* pc[i]: position of handler invocation i
    sent,       \* sent[i]: messages invocation i has replied with, in order
    rates,      \* rates[i]: the local variable `rates` of rates_command
    requests,   \* requests[i]: number of HTTP GETs issued by invocation i
    running     \* invocation that occupies the event loop's thread (0: none)

vars == <<token, mainPc, built, handlers, cmd, pc, sent, rates, requests, running>>

\* Number of handler invocations the platform delivers in one run.
MaxInv == 2

Inv == 1..MaxInv

Commands == {"start", "help", "rates"}

-----------------------------------------------------------------------------
(* Python values that flow through the fetcher and the formatter.          *)

EmptyMap == [k \in {} |-> 0]

\* A Python value: type, a number (numeric value, or length of a str/list),
\* and the mapping of a dict.
Val(t, n, m) == [type |-> t, num |-> n, map |-> m]

None == Val("None", 0, EmptyMap)

Float(n) == Val("float", n, EmptyMap)

Str(len) == Val("str", len, EmptyMap)

List(len) == Val("list", len, EmptyMap)

Dict(m) == Val("dict", 0, m)

\* Python truthiness: `not v` (lines 80 and 92).
Falsy(v) ==
    CASE v.type = "None"  -> TRUE
      [] v.type = "float" -> v.num = 0
      [] v.type = "str"   -> v.num = 0
      [] v.type = "list"  -> v.num = 0
      [] v.type = "dict"  -> DOMAIN v.map = {}
      [] OTHER            -> FALSE

\* CURRENCIES, in insertion order (dict iteration order, line 90).
CatalogOrder == <<"CNY", "KZT", "RUB", "UAH", "EUR", "GBP">>

CURRENCIES ==
    [code \in {"CNY", "KZT", "RUB", "UAH", "EUR", "GBP"} |->
        CASE code = "CNY" -> [name |-> "Chinese yuan",      flag |-> "flag-CN"]
          [] code = "KZT" -> [name |-> "Kazakhstani tenge", flag |-> "flag-KZ"]
          [] code = "RUB" -> [name |-> "Russian ruble",     flag |-> "flag-RU"]
          [] code = "UAH" -> [name |-> "Ukrainian hryvnia", flag |-> "flag-UA"]
          [] code = "EUR" -> [name |-> "Euro",              flag |-> "flag-EU"]
          [] code = "GBP" -> [name |-> "British pound",     flag |-> "flag-GB"]]

-----------------------------------------------------------------------------
(* get_exchange_rates (lines 34-45)                                        *)

\* Rate snapshots the provider may answer with ("rates" objects).  No rate
\* lies exactly halfway between two 4-decimal numbers.

SnapEmpty == Dict(EmptyMap)

\* The example of the specification: {"CNY": 7.1234, "EUR": 0.9000}.
SnapExample == Dict([k \in {"CNY", "EUR"} |->
                        IF k = "CNY" THEN Float(712340) ELSE Float(90000)])

SnapZero == Dict([k \in {"CNY", "EUR"} |->
                        IF k = "CNY" THEN Float(0) ELSE Float(90000)])

SnapForeign == Dict([k \in {"JPY"} |-> Float(15000000)])

SnapAll ==
    Dict([k \in {"CNY", "KZT", "RUB", "UAH", "EUR", "GBP"} |->
        CASE k = "CNY" -> Float(712346)
          [] k = "KZT" -> Float(47050000)
          [] k = "RUB" -> Float(9000000)
          [] k = "UAH" -> Float(4120000)
          [] k = "EUR" -> Float(90000)
          [] k = "GBP" -> Float(4)])

SnapNegative == Dict([k \in {"GBP"} |-> Float(-78001)])

SnapString == Dict([k \in {"CNY"} |-> Str(3)])

SnapNull == Dict([k \in {"RUB", "EUR"} |->
                        IF k = "RUB" THEN None ELSE Float(90000)])

\* Values the "rates" key of a JSON object body may hold.
RatesValues ==
    { SnapEmpty, SnapExample, SnapZero, SnapForeign, SnapAll, SnapNegative,
      SnapString, SnapNull,
      None,           \* "rates": null
      Float(500000),  \* "rates": 5
      List(0),        \* "rates": []
      List(2) }       \* "rates": [1, 2]

\* An outcome of the single GET: what requests.get, raise_for_status and
\* response.json do.  json is the shape of the parsed body.
Resp(k, j, h, r) == [kind |-> k, json |-> j, hasRates |-> h, rates |-> r]

Responses ==
    { Resp("connection_error", "none", FALSE, None),
      Resp("timeout", "none", FALSE, None),
      Resp("http_error", "none", FALSE, None),
      Resp("ok", "invalid", FALSE, None),
      Resp("ok", "array", FALSE, None),
      Resp("ok", "object", FALSE, None) }
    \cup { Resp("ok", "object", TRUE, r) : r \in RatesValues }

\* Result of a call: the value returned, or an exception leaving the function.
Ret(v) == [raised |-> FALSE, value |-> v]

Raise == [raised |-> TRUE, value |-> None]

\* The body of the try block (lines 38-42): raises on a failed request
\* (line 39), a non-success status (line 40), a body that is not JSON
\* (line 41) or a parsed body without a get method (line 42).
get_exchange_rates_try(resp) ==
    IF resp.kind # "ok" THEN Raise
    ELSE IF resp.json # "object" THEN Raise
    ELSE IF resp.hasRates THEN Ret(resp.rates)
    ELSE Ret(SnapEmpty)

\* Lines 36-45: `except Exception` turns every raise into None.
get_exchange_rates(resp) ==
    LET r == get_exchange_rates_try(resp)
    IN  IF r.raised THEN Ret(None) ELSE r

-----------------------------------------------------------------------------
(* The messages and the formatter of rates_command (lines 86-97)           *)

\* Values datetime.now() may take (line 87).
Times == {1, 2}

NoHeader == [label |-> "", now |-> 0]

NoRate == [neg |-> FALSE, int |-> 0, frac |-> 0]

\* An outbound message: which reply it is, reply_text or reply_html, and for
\* the table its header and its lines.
Msg(k, mode, h, ls) == [kind |-> k, mode |-> mode, header |-> h, lines |-> ls]

\* Line 76.
Ack == Msg("ack", "text", NoHeader, <<>>)

\* Lines 81-83.
Apology == Msg("apology", "text", NoHeader, <<>>)

\* Lines 51-58.
Welcome == Msg("welcome", "text", NoHeader, <<>>)

\* Lines 63-71.
Help == Msg("help", "html", NoHeader, <<>>)

\* f"{rate:.4f}" (line 95) of a number given in units of 10^-5: rounded to
\* the nearest multiple of 10^-4, sign kept, four fractional digits.
Format4f(n) ==
    LET a == IF n < 0 THEN -n ELSE n
        q == (a + 5) \div 10
    IN  [neg |-> n < 0, int |-> q \div 10000, frac |-> q % 10000]

\* rates.get(code) on a dict (line 91).
dict_get(r, code) == IF code \in DOMAIN r.map THEN r.map[code] ELSE None

\* `if rate:` (line 92).
rate_present(rate) == ~Falsy(rate)

\* Line 95: flag, bold name, "1 USD = <rate> <code>".
RateLine(code, rate) ==
    [kind |-> "rate", flag |-> CURRENCIES[code].flag,
     name |-> CURRENCIES[code].name, bold |-> TRUE, base |-> "USD",
     rate |-> Format4f(rate.num), code |-> code]

\* Line 97: flag, name, "data unavailable"; the code is not printed.
UnavailableLine(code) ==
    [kind |-> "unavailable", flag |-> CURRENCIES[code].flag,
     name |-> CURRENCIES[code].name, bold |-> FALSE, base |-> "",
     rate |-> NoRate, code |-> ""]

\* One iteration of the loop (lines 91-97).
FormatLine(r, code) ==
    LET rate == dict_get(r, code)
    IN  IF rate_present(rate) THEN RateLine(code, rate)
        ELSE UnavailableLine(code)

\* Whether lines 90-97 raise: rates without a get method (AttributeError,
\* line 91) or a truthy rate that is no number (the format code f, line 95).
FormatRaises(r) ==
    \/ r.type # "dict"
    \/ \E k \in 1..Len(CatalogOrder) :
          LET rate == dict_get(r, CatalogOrder[k])
          IN  rate_present(rate) /\ rate.type # "float"

\* Lines 87-97: the header, then one line per catalog entry in catalog order.
FormatTable(r, now) ==
    Msg("table", "html", [label |-> "USD", now |-> now],
        [k \in 1..Len(CatalogOrder) |-> FormatLine(r, CatalogOrder[k])])

-----------------------------------------------------------------------------
(* main (lines 102-120)                                                    *)

TokenValues == {"unset", "empty", "123:abc"}

\* not_token with `if token is None:` in place of line 105.
not_token_unset_only(t) == t = "unset"

\* `if not token:` (line 105): os.getenv gives None when the variable is unset.
not_token(t) == t \in {"unset", "empty"}

\* Lines 104-108.
main_check_token ==
    /\ mainPc = "start"
    /\ mainPc' = IF not_token(token) THEN "aborted" ELSE "build"
    /\ UNCHANGED <<token, built, handlers, cmd, pc, sent, rates, requests, running>>

\* Line 111.
main_build ==
    /\ mainPc = "build"
    /\ built' = TRUE
    /\ mainPc' = "add_start"
    /\ UNCHANGED <<token, handlers, cmd, pc, sent, rates, requests, running>>

\* Lines 114-116, one add_handler call each.
main_add_handler ==
    /\ mainPc \in {"add_start", "add_help", "add_rates"}
    /\ handlers' = handlers \cup
          {CASE mainPc = "add_start" -> "start"
             [] mainPc = "add_help"  -> "help"
             [] mainPc = "add_rates" -> "rates"}
    /\ mainPc' = CASE mainPc = "add_start" -> "add_help"
                   [] mainPc = "add_help"  -> "add_rates"
                   [] mainPc = "add_rates" -> "run_polling"
    /\ UNCHANGED <<token, built, cmd, pc, sent, rates, requests, running>>

\* Lines 119-120: the platform's update loop starts.
main_run_polling ==
    /\ mainPc = "run_polling"
    /\ mainPc' = "polling"
    /\ UNCHANGED <<token, built, handlers, cmd, pc, sent, rates, requests, running>>

main == main_check_token \/ main_build \/ main_add_handler \/ main_run_polling

-----------------------------------------------------------------------------
(* The platform's update loop and the three handlers                       *)

\* The update loop hands command c to its registered handler as invocation i.
\* It runs on the event loop's thread, so only while no coroutine occupies it.
Dispatch(i, c) ==
    /\ mainPc = "polling"
    /\ running = 0
    /\ c \in handlers
    /\ pc[i] = "idle"
    /\ \A j \in Inv : j < i => pc[j] # "idle"
    /\ cmd' = [cmd EXCEPT ![i] = c]
    /\ pc' = [pc EXCEPT ![i] = "entry"]
    /\ UNCHANGED <<token, mainPc, built, handlers, sent, rates, requests, running>>

\* start that also calls the rate fetcher before replying.
start_with_fetch(i) ==
    /\ cmd[i] = "start"
    /\ pc[i] = "entry"
    /\ running = 0
    /\ requests' = [requests EXCEPT ![i] = @ + 1]
    /\ sent' = [sent EXCEPT ![i] = Append(@, Welcome)]
    /\ pc' = [pc EXCEPT ![i] = "await_reply"]
    /\ UNCHANGED <<token, mainPc, built, handlers, cmd, rates, running>>

\* start (lines 48-58): builds the greeting and replies with it.
start(i) ==
    /\ cmd[i] = "start"
    /\ pc[i] = "entry"
    /\ running = 0
    /\ sent' = [sent EXCEPT ![i] = Append(@, Welcome)]
    /\ pc' = [pc EXCEPT ![i] = "await_reply"]
    /\ UNCHANGED <<token, mainPc, built, handlers, cmd, rates, requests, running>>

\* help_command (lines 61-71).
help_command(i) ==
    /\ cmd[i] = "help"
    /\ pc[i] = "entry"
    /\ running = 0
    /\ sent' = [sent EXCEPT ![i] = Append(@, Help)]
    /\ pc' = [pc EXCEPT ![i] = "await_reply"]
    /\ UNCHANGED <<token, mainPc, built, handlers, cmd, rates, requests, running>>

\* rates_command with line 76 left out: no acknowledgment before the fetch.
rates_ack_missing(i) ==
    /\ cmd[i] = "rates"
    /\ pc[i] = "entry"
    /\ running = 0
    /\ pc' = [pc EXCEPT ![i] = "await_ack"]
    /\ UNCHANGED <<token, mainPc, built, handlers, cmd, sent, rates, requests, running>>

\* rates_command, line 76: the acknowledgment, then the await suspends.
rates_ack(i) ==
    /\ cmd[i] = "rates"
    /\ pc[i] = "entry"
    /\ running = 0
    /\ sent' = [sent EXCEPT ![i] = Append(@, Ack)]
    /\ pc' = [pc EXCEPT ![i] = "await_ack"]
    /\ UNCHANGED <<token, mainPc, built, handlers, cmd, rates, requests, running>>

\* Line 78 calling line 39: the coroutine resumes and issues the GET; the
\* call is synchronous, so the thread stays with this invocation.
rates_fetch_begin(i) ==
    /\ cmd[i] = "rates"
    /\ pc[i] = "await_ack"
    /\ running = 0
    /\ requests' = [requests EXCEPT ![i] = @ + 1]
    /\ running' = i
    /\ pc' = [pc EXCEPT ![i] = "fetching"]
    /\ UNCHANGED <<token, mainPc, built, handlers, cmd, sent, rates>>

\* Lines 39-45 and the assignment of line 78: the GET ends with one of its
\* outcomes and get_exchange_rates returns (or would raise).
rates_fetch_return(i) ==
    /\ pc[i] = "fetching"
    /\ running = i
    /\ \E resp \in Responses :
          LET res == get_exchange_rates(resp)
          IN  /\ rates' = [rates EXCEPT ![i] = res.value]
              /\ pc' = [pc EXCEPT ![i] = IF res.raised THEN "raised" ELSE "fetched"]
              /\ running' = IF res.raised THEN 0 ELSE i
    /\ UNCHANGED <<token, mainPc, built, handlers, cmd, sent, requests>>

\* not_rates with `if rates == {}:` in place of line 80.
not_rates_empty_only(r) == r.type = "dict" /\ DOMAIN r.map = {}

\* `if not rates:` (line 80).
not_rates(r) == Falsy(r)

\* Lines 80-99: the apology and return, or the table; an exception of the
\* formatter ends the handler without a second message.
rates_reply(i) ==
    /\ pc[i] = "fetched"
    /\ running = i
    /\ running' = 0
    /\ IF not_rates(rates[i])
       THEN /\ sent' = [sent EXCEPT ![i] = Append(@, Apology)]
            /\ pc' = [pc EXCEPT ![i] = "await_reply"]
       ELSE IF FormatRaises(rates[i])
       THEN /\ pc' = [pc EXCEPT ![i] = "raised"]
            /\ UNCHANGED sent
       ELSE \E now \in Times :
            /\ sent' = [sent EXCEPT ![i] = Append(@, FormatTable(rates[i], now))]
            /\ pc' = [pc EXCEPT ![i] = "await_reply"]
    /\ UNCHANGED <<token, mainPc, built, handlers, cmd, rates, requests>>

\* The last await of a handler completes and the handler returns
\* (lines 58, 71, 84, 99).
handler_return(i) ==
    /\ pc[i] = "await_reply"
    /\ running = 0
    /\ pc' = [pc EXCEPT ![i] = "done"]
    /\ UNCHANGED <<token, mainPc, built, handlers, cmd, sent, rates, requests, running>>

rates_command(i) ==
    rates_ack(i) \/ rates_fetch_begin(i) \/ rates_fetch_return(i) \/ rates_reply(i)

-----------------------------------------------------------------------------

Init ==
    /\ token \in TokenValues
    /\ mainPc = "start"
    /\ built = FALSE
    /\ handlers = {}
    /\ cmd = [i \in Inv |-> "none"]
    /\ pc = [i \in Inv |-> "idle"]
    /\ sent = [i \in Inv |-> <<>>]
    /\ rates = [i \in Inv |-> None]
    /\ requests = [i \in Inv |-> 0]
    /\ running = 0

Next ==
    \/ main
    \/ \E i \in Inv, c \in Commands : Dispatch(i, c)
    \/ \E i \in Inv : start(i)
    \/ \E i \in Inv : help_command(i)
    \/ \E i \in Inv : rates_command(i)
    \/ \E i \in Inv : handler_return(i)

Spec == Init /\ [][Next]_vars

TypeOK ==
    /\ token \in TokenValues
    /\ built \in BOOLEAN
    /\ handlers \subseteq Commands
    /\ running \in 0..MaxInv
    /\ \A i \in Inv :
          /\ cmd[i] \in Commands \cup {"none"}
          /\ pc[i] \in {"idle", "entry", "await_ack", "fetching", "fetched",
                        "await_reply", "done", "raised"}
          /\ requests[i] \in 0..1
          /\ Len(sent[i]) <= 2

-----------------------------------------------------------------------------
(* Properties                                                              *)

\* A well-typed rate snapshot: a mapping whose values are all numbers.
IsSnapshot(r) == r.type = "dict" /\ \A k \in DOMAIN r.map : r.map[k].type = "float"

\* Invocation i of /rates is past its reply step (lines 80-99).
Replied(i) == cmd[i] = "rates" /\ pc[i] \in {"await_reply", "done", "raised"}

\* Invocation i of /rates has sent a table as its second message.
SentTable(i) == cmd[i] = "rates" /\ Len(sent[i]) = 2 /\ sent[i][2].kind = "table"

\* C1: with an empty rate snapshot the second reply of /rates is the table,
\* holding the header and a "data unavailable" line for each of the six
\* catalog entries, and not the failure notice.
C1_EmptySnapshotGivesTable ==
    \A i \in Inv :
        (Replied(i) /\ rates[i] = SnapEmpty) =>
            /\ SentTable(i)
            /\ sent[i][2].header.label = "USD"
            /\ \A k \in 1..Len(CatalogOrder) :
                  sent[i][2].lines[k] = UnavailableLine(CatalogOrder[k])

\* C2: every catalog entry whose code is a key of the snapshot with a numeric
\* value, 0 included, has its rate line (flag, name, "1 USD = <rate> <code>")
\* in the table sent, and not the "data unavailable" line.
C2_PresentCodeGetsRateLine ==
    \A i \in Inv :
        (SentTable(i) /\ rates[i].type = "dict") =>
            \A k \in 1..Len(CatalogOrder) :
                LET code == CatalogOrder[k]
                    line == sent[i][2].lines[k]
                IN  (code \in DOMAIN rates[i].map /\ rates[i].map[code].type = "float") =>
                        /\ line.kind = "rate"
                        /\ line.code = code
                        /\ line.flag = CURRENCIES[code].flag
                        /\ line.name = CURRENCIES[code].name
                        /\ line.rate = Format4f(rates[i].map[code].num)

\* C3: a /rates invocation that has ended has sent exactly two messages: the
\* acknowledgment, then the table when the fetch succeeded and the apology
\* when the fetch failed (returned None).
C3_RatesSendsExactlyTwo ==
    \A i \in Inv :
        (cmd[i] = "rates" /\ pc[i] \in {"done", "raised"}) =>
            /\ Len(sent[i]) = 2
            /\ sent[i][1] = Ack
            /\ rates[i] # None => sent[i][2].kind = "table"
            /\ rates[i] = None => sent[i][2] = Apology

\* C4: with a non-failed snapshot the handler completes and sends the table,
\* and every catalog entry whose code is absent from the snapshot has a
\* "data unavailable" line in it.
C4_AbsentCodeGetsUnavailable ==
    \A i \in Inv :
        (Replied(i) /\ IsSnapshot(rates[i])) =>
            /\ pc[i] # "raised"
            /\ SentTable(i)
            /\ \A k \in 1..Len(CatalogOrder) :
                  CatalogOrder[k] \notin DOMAIN rates[i].map =>
                      sent[i][2].lines[k] = UnavailableLine(CatalogOrder[k])

\* C5: when the fetch returned the failure signal None, the second message
\* of /rates is the failure notice, no table is built or sent, the handler
\* does not raise and gives the thread back, and the process keeps polling:
\* whenever the event loop is free, the next command can be dispatched.
C5_FetchFailureGivesApology ==
    \A i \in Inv :
        (Replied(i) /\ rates[i] = None) =>
            /\ pc[i] # "raised"
            /\ sent[i] = <<Ack, Apology>>
            /\ mainPc = "polling"
            /\ running # i
            /\ \A j \in Inv :
                  (running = 0 /\ pc[j] = "idle"
                               /\ \A k \in Inv : k < j => pc[k] # "idle") =>
                      \A c \in Commands : ENABLED Dispatch(j, c)

\* A failed fetch was answered with the apology and a later command was
\* handled to its end.
C5_Witness ==
    \E i, j \in Inv :
        /\ i < j
        /\ cmd[i] = "rates" /\ pc[i] = "done" /\ rates[i] = None
        /\ sent[i] = <<Ack, Apology>>
        /\ pc[j] = "done"

\* C6: after the fetch, get_exchange_rates has not raised, has returned a
\* rates mapping or None, and has made exactly one request.
C6_FetcherReturnsMappingOrNone ==
    \A i \in Inv :
        (cmd[i] = "rates" /\ pc[i] \in {"fetched", "await_reply", "done", "raised"}) =>
            /\ requests[i] = 1
            /\ rates[i].type \in {"None", "dict"}
            /\ ~(pc[i] = "raised" /\ Len(sent[i]) = 1 /\ rates[i] = None)

\* C7: with the token unset or empty nothing is built, no handler is
\* registered, polling never starts and no command is dispatched; with the
\* token set, all three handlers are registered once polling has started.
C7_NoTokenNoDispatch ==
    /\ token \in {"unset", "empty"} =>
          /\ mainPc \in {"start", "aborted"}
          /\ ~built
          /\ handlers = {}
          /\ \A i \in Inv : pc[i] = "idle" /\ cmd[i] = "none"
    /\ mainPc = "polling" => (built /\ handlers = Commands)
    /\ (\E i \in Inv : pc[i] # "idle") => mainPc = "polling"

\* main has aborted on an empty token.
C7_Witness == token = "empty" /\ mainPc = "aborted" /\ ~built /\ handlers = {}

\* C8: the acknowledgment is sent before the fetch begins, and the second
\* message only after the fetch has returned.
C8_AckBeforeFetch ==
    \A i \in Inv :
        cmd[i] = "rates" =>
            /\ (requests[i] > 0 \/ pc[i] \in {"fetching", "fetched"}) =>
                  (Len(sent[i]) >= 1 /\ sent[i][1] = Ack)
            /\ pc[i] \in {"entry", "await_ack", "fetching", "fetched"} =>
                  Len(sent[i]) <= 1
            /\ Len(sent[i]) >= 2 =>
                  (requests[i] = 1 /\ pc[i] \in {"await_reply", "done"})

\* A fetch is in flight, with the acknowledgment as the only message sent.
C8_Witness ==
    \E i \in Inv : cmd[i] = "rates" /\ pc[i] = "fetching" /\ sent[i] = <<Ack>>

\* C9: while one /rates invocation is inside its fetch, a delivered /start,
\* /help or /rates invocation can take its first step and send its reply.
C9_NoHandlerBlocksOnFetch ==
    \A i, j \in Inv :
        (pc[i] = "fetching" /\ pc[j] = "entry") =>
            /\ cmd[j] = "start" => ENABLED start(j)
            /\ cmd[j] = "help"  => ENABLED help_command(j)
            /\ cmd[j] = "rates" => ENABLED rates_ack(j)

\* C10: a /start or /help invocation issues no request and sends exactly
\* one reply, its own, whatever the other invocations do.
C10_StartHelpOneReplyNoFetch ==
    \A i \in Inv :
        cmd[i] \in {"start", "help"} =>
            /\ requests[i] = 0
            /\ rates[i] = None
            /\ pc[i] \in {"entry", "await_reply", "done"}
            /\ pc[i] = "entry" => sent[i] = <<>>
            /\ pc[i] \in {"await_reply", "done"} =>
                  sent[i] = <<IF cmd[i] = "start" THEN Welcome ELSE Help>>

\* A /start or /help has ended with its one reply after an earlier /rates
\* invocation issued its request.
C10_Witness ==
    \E i, j \in Inv :
        /\ j < i
        /\ cmd[j] = "rates" /\ requests[j] = 1
        /\ cmd[i] \in {"start", "help"} /\ pc[i] = "done" /\ Len(sent[i]) = 1

====
